---- MODULE Spec2Model ----
(***************************************************************************)
(* Display/input driver layer of nakamochi/ndg (src/ui/c): the three       *)
(* mutually exclusive backends' initialisation (drv_fbev.c, drv_x11.c,     *)
(* drv_sdl2.c), the non-blocking evdev pump of the framebuffer backend     *)
(* (nm_open_evdev_nonblock, nm_close_evdev, nm_consume_input_events) and   *)
(* the 32-bit tick counter declared in ui.h / lv_custom_tick.h.            *)
(***************************************************************************)
EXTENDS Integers, Sequences, FiniteSets, TLC

VARIABLES
    \* ---- backend initialisation ----
    backend,        \* which translation unit is linked: "fbev", "x11", "sdl2"
    pc,             \* position of the initialisation sequence
    hw,             \* mode the hardware / window system reports when queried
    disps,          \* the toolkit's registered displays, in order
    disp,           \* local: lv_disp_t *disp (index into disps), or NULL
    indevs,         \* the toolkit's registered input devices, in order
    groups,         \* number of focus groups created so far
    default_group,  \* the toolkit's default group (a group id), or NULL
    g,              \* local: lv_group_t *g
    kb,             \* local: lv_indev_t *kb (index into indevs), or NULL
    warns,          \* the warnings logged with LV_LOG_WARN
    tk_fail,        \* the toolkit calls that returned NULL
    returned,       \* the initialisation functions that have returned
    ret_disp,       \* value returned by nm_disp_init / drv_init
    ret_indev,      \* value returned by nm_indev_init
    \* ---- evdev pump (framebuffer backend) ----
    bsd,            \* USE_BSD_EVDEV
    openable,       \* EVDEV_NAME exists and may be opened
    fdtab,          \* per descriptor: is it open, and its file status flags
    buf,            \* per descriptor: input_event records buffered for it
    ppc,            \* "idle", or inside nm_consume_input_events: "reading", "blocked"
    step,           \* the operation that made the last step
    arg_fd,         \* the fd argument of the last close / consume call
    count,          \* local: int count
    got,            \* read() calls of the current call that returned a full record
    at_start,       \* records buffered for arg_fd when the current call began
    arrived,        \* a record was delivered to arg_fd after the current call began
    syscalls,       \* the system calls issued by the last step
    ret_open,       \* value returned by the last nm_open_evdev_nonblock
    ret_consume,    \* value returned by the last nm_consume_input_events
    \* ---- tick source ----
    clock,          \* milliseconds elapsed since program start, as the OS clock has them
    n_elapse,       \* number of times the clock was advanced
    nreads,         \* readings of nm_get_curr_tick taken so far (0, 1, 2 = two or more)
    t_early,        \* the reading before the latest one
    t_late,         \* the latest reading
    c_early,        \* the clock when t_early was taken
    c_late,         \* the clock when t_late was taken
    \* ---- wifi section of the settings panel (ui.c) ----
    btn_state,      \* states of settings.wifi_connect_btn_obj
    spinner_flags,  \* flags of settings.wifi_spinner_obj
    wifi_status,    \* text of settings.wifi_status_obj
    ssid_opts,      \* options of settings.wifi_ssid_list_obj
    ssid_sel,       \* index of the selected option, from 0
    wifi_pwd,       \* text of settings.wifi_pwd_obj
    wifi_op,        \* the handler that ran last
    pending,        \* nm_wifi_start_connect calls since the last status update
    seen_at_connect \* what the latest nm_wifi_start_connect call was given and found

initVars == <<backend, pc, hw, disps, disp, indevs, groups, default_group, g, kb,
              warns, tk_fail, returned, ret_disp, ret_indev>>

pumpVars == <<bsd, openable, fdtab, buf, ppc, step, arg_fd, count, got, at_start,
              arrived, syscalls, ret_open, ret_consume>>

tickVars == <<clock, n_elapse, nreads, t_early, t_late, c_early, c_late>>

wifiVars == <<btn_state, spinner_flags, wifi_status, ssid_opts, ssid_sel, wifi_pwd,
              wifi_op, pending, seen_at_connect>>

vars == <<initVars, pumpVars, tickVars, wifiVars>>

NULL == 0

\* compile-time display geometry (-DNM_DISP_HOR / -DNM_DISP_VER) and colour depth
NM_DISP_HOR == 800
NM_DISP_VER == 480
LV_COLOR_DEPTH == 32

Backends == {"fbev", "x11", "sdl2"}

\* the modes a framebuffer / desktop may report: the configured one or another
HwModes == [err : {0, 1},
            w   : {NM_DISP_HOR, 1024},
            h   : {NM_DISP_VER, 600},
            bpp : {LV_COLOR_DEPTH, 16}]

----------------------------------------------------------------------------
(* toolkit capability surface, as the drivers use it *)

\* lv_disp_drv_register(&disp_drv): appends a display with the driver's settings
lv_disp_drv_register(ds, drv) == Append(ds, drv)

\* lv_indev_drv_register(&drv): appends a device of drv's type; no group, no cursor
lv_indev_drv_register(devs, type) ==
    Append(devs, [type |-> type, group |-> NULL, cursor |-> FALSE])

\* lv_indev_set_group(indev, group)
lv_indev_set_group(devs, i, grp) == [devs EXCEPT ![i].group = grp]

\* lv_indev_set_cursor(indev, cursor_obj)
lv_indev_set_cursor(devs, i) == [devs EXCEPT ![i].cursor = TRUE]

\* mutant: the driver is registered at the size the hardware reported
DispDrv_Reported == [hor_res |-> hw.w, ver_res |-> hw.h]

\* disp_drv.hor_res = NM_DISP_HOR; disp_drv.ver_res = NM_DISP_VER;
DispDrv == [hor_res |-> NM_DISP_HOR, ver_res |-> NM_DISP_VER]

\* the host calls nm_indev_init only with a display in hand, else aborts startup
HostAfterDisp(d) == IF d = NULL THEN "done" ELSE "indev_init"

Fail(st) == tk_fail' = tk_fail \cup {st}
Warn(w) == warns' = warns \cup {w}

----------------------------------------------------------------------------
(* drv_fbev.c *)

\* if (hor != NM_DISP_HOR || vert != NM_DISP_VER) LV_LOG_WARN(...)
FbMismatch(m) == m.w # NM_DISP_HOR \/ m.h # NM_DISP_VER

FbDispInit ==
    /\ backend = "fbev" /\ pc = "disp_init"
    /\ \E ok \in BOOLEAN :
        IF ok
        THEN /\ disps' = lv_disp_drv_register(disps, DispDrv)
             /\ disp' = Len(disps) + 1
             /\ UNCHANGED tk_fail
        ELSE /\ Fail("display")
             /\ disp' = NULL
             /\ UNCHANGED disps
    /\ warns' = IF FbMismatch(hw) THEN warns \cup {"mismatch"} ELSE warns
    /\ ret_disp' = disp'
    /\ returned' = returned \cup {"nm_disp_init"}
    /\ pc' = HostAfterDisp(disp')
    /\ UNCHANGED <<backend, hw, indevs, groups, default_group, g, kb, ret_indev>>
    /\ UNCHANGED <<pumpVars, tickVars, wifiVars>>

\* mutant: a NULL group is not checked; the touchpad is registered all the same
FbIndevGroup_Continue ==
    /\ backend = "fbev" /\ pc = "indev_init"
    /\ \E ok \in BOOLEAN :
        IF ok
        THEN /\ groups' = groups + 1
             /\ g' = groups + 1
             /\ default_group' = groups + 1
             /\ UNCHANGED tk_fail
        ELSE /\ Fail("group")
             /\ UNCHANGED <<groups, g, default_group>>
    /\ pc' = "fb_touchpad"
    /\ UNCHANGED <<backend, hw, disps, disp, indevs, kb, warns, returned, ret_disp, ret_indev>>
    /\ UNCHANGED <<pumpVars, tickVars, wifiVars>>

\* evdev_init(); g = lv_group_create(); if (g == NULL) return -1; lv_group_set_default(g);
FbIndevGroup ==
    /\ backend = "fbev" /\ pc = "indev_init"
    /\ \E ok \in BOOLEAN :
        IF ok
        THEN /\ groups' = groups + 1
             /\ g' = groups + 1
             /\ default_group' = groups + 1
             /\ pc' = "fb_touchpad"
             /\ UNCHANGED <<tk_fail, ret_indev>>
        ELSE /\ Fail("group")
             /\ ret_indev' = -1
             /\ pc' = "done"
             /\ UNCHANGED <<groups, g, default_group>>
    /\ returned' = IF pc' = "done" THEN returned \cup {"nm_indev_init"} ELSE returned
    /\ UNCHANGED <<backend, hw, disps, disp, indevs, kb, warns, ret_disp>>
    /\ UNCHANGED <<pumpVars, tickVars, wifiVars>>

\* mutant: the touchpad handle is not checked, 0 is returned either way
FbIndevTouchpad_IgnoreNull ==
    /\ backend = "fbev" /\ pc = "fb_touchpad"
    /\ \E ok \in BOOLEAN :
        IF ok
        THEN /\ indevs' = lv_indev_drv_register(indevs, "pointer")
             /\ UNCHANGED tk_fail
        ELSE /\ Fail("pointer")
             /\ UNCHANGED indevs
    /\ ret_indev' = 0
    /\ pc' = "done"
    /\ returned' = returned \cup {"nm_indev_init"}
    /\ UNCHANGED <<backend, hw, disps, disp, groups, default_group, g, kb, warns, ret_disp>>
    /\ UNCHANGED <<pumpVars, tickVars, wifiVars>>

\* touchpad = lv_indev_drv_register(&touchpad_drv); if (touchpad == NULL) return -1; return 0;
FbIndevTouchpad ==
    /\ backend = "fbev" /\ pc = "fb_touchpad"
    /\ \E ok \in BOOLEAN :
        IF ok
        THEN /\ indevs' = lv_indev_drv_register(indevs, "pointer")
             /\ ret_indev' = 0
             /\ UNCHANGED tk_fail
        ELSE /\ Fail("pointer")
             /\ ret_indev' = -1
             /\ UNCHANGED indevs
    /\ pc' = "done"
    /\ returned' = IF pc' = "done" THEN returned \cup {"nm_indev_init"} ELSE returned
    /\ UNCHANGED <<backend, hw, disps, disp, groups, default_group, g, kb, warns, ret_disp>>
    /\ UNCHANGED <<pumpVars, tickVars, wifiVars>>

----------------------------------------------------------------------------
(* drv_x11.c *)

\* lv_x11_init(...) creates the window at the configured size; no mode is queried
X11DispInit ==
    /\ backend = "x11" /\ pc = "disp_init"
    /\ \E ok \in BOOLEAN :
        IF ok
        THEN /\ disps' = lv_disp_drv_register(disps, DispDrv)
             /\ disp' = Len(disps) + 1
             /\ UNCHANGED tk_fail
        ELSE /\ Fail("display")
             /\ disp' = NULL
             /\ UNCHANGED disps
    /\ ret_disp' = disp'
    /\ returned' = returned \cup {"nm_disp_init"}
    /\ pc' = HostAfterDisp(disp')
    /\ UNCHANGED <<backend, hw, indevs, groups, default_group, g, kb, warns, ret_indev>>
    /\ UNCHANGED <<pumpVars, tickVars, wifiVars>>

\* mouse = lv_indev_drv_register(&mouse_drv); if (mouse == NULL) { warn; return -1; }
\* ... lv_indev_set_cursor(mouse, cursor_obj);
X11IndevMouse ==
    /\ backend = "x11" /\ pc = "indev_init"
    /\ \E ok \in BOOLEAN :
        IF ok
        THEN /\ indevs' = lv_indev_set_cursor(lv_indev_drv_register(indevs, "pointer"),
                                              Len(indevs) + 1)
             /\ pc' = "x11_kb"
             /\ UNCHANGED <<tk_fail, warns, ret_indev>>
        ELSE /\ Fail("pointer")
             /\ Warn("mouse")
             /\ ret_indev' = -1
             /\ pc' = "done"
             /\ UNCHANGED indevs
    /\ returned' = IF pc' = "done" THEN returned \cup {"nm_indev_init"} ELSE returned
    /\ UNCHANGED <<backend, hw, disps, disp, groups, default_group, g, kb, ret_disp>>
    /\ UNCHANGED <<pumpVars, tickVars, wifiVars>>

\* kb = lv_indev_drv_register(&keyboard_drv); if (kb == NULL) { warn; return -1; }
X11IndevKb ==
    /\ backend = "x11" /\ pc = "x11_kb"
    /\ \E ok \in BOOLEAN :
        IF ok
        THEN /\ indevs' = lv_indev_drv_register(indevs, "keypad")
             /\ kb' = Len(indevs) + 1
             /\ pc' = "x11_group"
             /\ UNCHANGED <<tk_fail, warns, ret_indev>>
        ELSE /\ Fail("keypad")
             /\ Warn("keyboard")
             /\ ret_indev' = -1
             /\ pc' = "done"
             /\ UNCHANGED <<indevs, kb>>
    /\ returned' = IF pc' = "done" THEN returned \cup {"nm_indev_init"} ELSE returned
    /\ UNCHANGED <<backend, hw, disps, disp, groups, default_group, g, ret_disp>>
    /\ UNCHANGED <<pumpVars, tickVars, wifiVars>>

\* mutant: the keyboard is never put into the default group
X11IndevGroup_NoSetGroup ==
    /\ backend = "x11" /\ pc = "x11_group"
    /\ \E ok \in BOOLEAN :
        IF ok
        THEN /\ groups' = groups + 1
             /\ g' = groups + 1
             /\ default_group' = groups + 1
             /\ ret_indev' = 0
             /\ UNCHANGED <<tk_fail, warns>>
        ELSE /\ Fail("group")
             /\ Warn("group")
             /\ ret_indev' = -1
             /\ UNCHANGED <<groups, g, default_group>>
    /\ pc' = "done"
    /\ returned' = returned \cup {"nm_indev_init"}
    /\ UNCHANGED <<backend, hw, disps, disp, indevs, kb, ret_disp>>
    /\ UNCHANGED <<pumpVars, tickVars, wifiVars>>

\* g = lv_group_create(); if (g == NULL) { warn; return -1; }
\* lv_group_set_default(g); lv_indev_set_group(kb, g); return 0;
X11IndevGroup ==
    /\ backend = "x11" /\ pc = "x11_group"
    /\ \E ok \in BOOLEAN :
        IF ok
        THEN /\ groups' = groups + 1
             /\ g' = groups + 1
             /\ default_group' = groups + 1
             /\ indevs' = lv_indev_set_group(indevs, kb, groups + 1)
             /\ ret_indev' = 0
             /\ UNCHANGED <<tk_fail, warns>>
        ELSE /\ Fail("group")
             /\ Warn("group")
             /\ ret_indev' = -1
             /\ UNCHANGED <<groups, g, default_group, indevs>>
    /\ pc' = "done"
    /\ returned' = IF pc' = "done" THEN returned \cup {"nm_indev_init"} ELSE returned
    /\ UNCHANGED <<backend, hw, disps, disp, kb, ret_disp>>
    /\ UNCHANGED <<pumpVars, tickVars, wifiVars>>

----------------------------------------------------------------------------
(* drv_sdl2.c: drv_init registers the display and the input devices in one call *)

\* dm_err != 0, or dm.w != NM_DISP_HOR || dm.h != NM_DISP_VER || bpp != LV_COLOR_DEPTH
Sdl2Mismatch(m) ==
    \/ m.err # 0
    \/ m.w # NM_DISP_HOR \/ m.h # NM_DISP_VER \/ m.bpp # LV_COLOR_DEPTH

\* disp = lv_disp_drv_register(&disp_drv); if (disp == NULL) return NULL;
Sdl2Disp ==
    /\ backend = "sdl2" /\ pc = "disp_init"
    /\ \E ok \in BOOLEAN :
        IF ok
        THEN /\ disps' = lv_disp_drv_register(disps, DispDrv)
             /\ disp' = Len(disps) + 1
             /\ UNCHANGED tk_fail
        ELSE /\ Fail("display")
             /\ disp' = NULL
             /\ UNCHANGED disps
    /\ warns' = IF Sdl2Mismatch(hw) THEN warns \cup {"mismatch"} ELSE warns
    /\ IF disp' = NULL
       THEN ret_disp' = NULL /\ returned' = returned \cup {"drv_init"} /\ pc' = "done"
       ELSE UNCHANGED <<ret_disp, returned>> /\ pc' = "sdl2_mouse"
    /\ UNCHANGED <<backend, hw, indevs, groups, default_group, g, kb, ret_indev>>
    /\ UNCHANGED <<pumpVars, tickVars, wifiVars>>

\* mutant: a NULL mouse ends drv_init with NULL, as a NULL display does
Sdl2Mouse_Fatal ==
    /\ backend = "sdl2" /\ pc = "sdl2_mouse"
    /\ \E ok \in BOOLEAN :
        IF ok
        THEN /\ indevs' = lv_indev_drv_register(indevs, "pointer")
             /\ pc' = "sdl2_group"
             /\ UNCHANGED <<tk_fail, warns, ret_disp, returned>>
        ELSE /\ Fail("pointer")
             /\ Warn("mouse")
             /\ ret_disp' = NULL
             /\ returned' = returned \cup {"drv_init"}
             /\ pc' = "done"
             /\ UNCHANGED indevs
    /\ UNCHANGED <<backend, hw, disps, disp, groups, default_group, g, kb, ret_indev>>
    /\ UNCHANGED <<pumpVars, tickVars, wifiVars>>

\* mouse = lv_indev_drv_register(&mouse_drv); if (mouse == NULL) warn;
Sdl2Mouse ==
    /\ backend = "sdl2" /\ pc = "sdl2_mouse"
    /\ \E ok \in BOOLEAN :
        IF ok
        THEN /\ indevs' = lv_indev_drv_register(indevs, "pointer")
             /\ UNCHANGED <<tk_fail, warns>>
        ELSE /\ Fail("pointer")
             /\ Warn("mouse")
             /\ UNCHANGED indevs
    /\ pc' = "sdl2_group"
    /\ UNCHANGED <<backend, hw, disps, disp, groups, default_group, g, kb, ret_disp, ret_indev, returned>>
    /\ UNCHANGED <<pumpVars, tickVars, wifiVars>>

\* g = lv_group_create(); if (g == NULL) warn; else lv_group_set_default(g);
Sdl2Group ==
    /\ backend = "sdl2" /\ pc = "sdl2_group"
    /\ \E ok \in BOOLEAN :
        IF ok
        THEN /\ groups' = groups + 1
             /\ g' = groups + 1
             /\ default_group' = groups + 1
             /\ UNCHANGED <<tk_fail, warns>>
        ELSE /\ Fail("group")
             /\ Warn("group")
             /\ UNCHANGED <<groups, g, default_group>>
    /\ pc' = "sdl2_kb"
    /\ UNCHANGED <<backend, hw, disps, disp, indevs, kb, ret_disp, ret_indev, returned>>
    /\ UNCHANGED <<pumpVars, tickVars, wifiVars>>

\* kb = lv_indev_drv_register(&keyboard_drv);
\* if (kb == NULL) warn; else if (g) lv_indev_set_group(kb, g);  return disp;
Sdl2Kb ==
    /\ backend = "sdl2" /\ pc = "sdl2_kb"
    /\ \E ok \in BOOLEAN :
        IF ok
        THEN /\ kb' = Len(indevs) + 1
             /\ indevs' = IF g # NULL
                          THEN lv_indev_set_group(
                                   lv_indev_drv_register(indevs, "keypad"),
                                   Len(indevs) + 1, g)
                          ELSE lv_indev_drv_register(indevs, "keypad")
             /\ UNCHANGED <<tk_fail, warns>>
        ELSE /\ Fail("keypad")
             /\ Warn("keyboard")
             /\ UNCHANGED <<indevs, kb>>
    /\ ret_disp' = disp
    /\ returned' = returned \cup {"drv_init"}
    /\ pc' = "done"
    /\ UNCHANGED <<backend, hw, disps, disp, groups, default_group, g, ret_indev>>
    /\ UNCHANGED <<pumpVars, tickVars, wifiVars>>

----------------------------------------------------------------------------
(* drv_fbev.c: the raw evdev descriptor the host polls for activity *)

MaxFds == 2       \* descriptors the process may hold open at once
BufCap == 2       \* records the kernel buffers for one descriptor
MaxCount == 4     \* count and got are tracked up to this value

\* the descriptor value that stands for "unopened" and for a failed open
Unopened == -1

\* sizeof(struct input_event)
InputEventSize == 24

Fds == 0..(MaxFds - 1)

Min(a, b) == IF a < b THEN a ELSE b

Closed == [open |-> FALSE, flags |-> {}]

OpenFds == {f \in Fds : fdtab[f].open}

\* open(EVDEV_NAME, flags): the lowest free descriptor, -1 when the path cannot be
\* opened or the process has no descriptor left
OpenSyscall ==
    IF openable /\ OpenFds # Fds
    THEN CHOOSE f \in Fds \ OpenFds : \A h \in Fds \ OpenFds : f <= h
    ELSE -1

\* O_RDWR | O_NOCTTY [| O_NDELAY]: the file status flags open() leaves on the descriptor
OpenFlags(b) == IF b THEN {} ELSE {"O_NONBLOCK"}

\* mutant: F_SETFL without O_NONBLOCK
FcntlFlags_NoNonblock(b) == IF b THEN {} ELSE {"O_ASYNC"}

\* fcntl(fd, F_SETFL, O_NONBLOCK) / fcntl(fd, F_SETFL, O_ASYNC | O_NONBLOCK)
FcntlFlags(b) == IF b THEN {"O_NONBLOCK"} ELSE {"O_ASYNC", "O_NONBLOCK"}

\* mutant: the result of open() is not checked
OpenFailed_Unchecked(fd) == FALSE

\* if (fd == -1) return -1;
OpenFailed(fd) == fd = -1

\* mutant: close() is called on whatever is passed
CloseGuard_None(fd) == TRUE

\* if (fd != -1) close(fd);
CloseGuard(fd) == fd # -1

\* if (fd == -1) return false;   (the guard under which the loop is entered)
ConsumeGuard(fd) == fd # -1

\* while (read(fd, &in, sizeof(struct input_event)) > 0)
ReadGotRecord(r) == r > 0

\* mutant: return count >= 0;
ConsumeResult_Always(c) == c >= 0

\* return count > 0;
ConsumeResult(c) == c > 0

\* read(fd, &in, sizeof(struct input_event)) on a descriptor with n buffered records:
\* one whole record, or -1 (EAGAIN) when none is buffered and the descriptor is
\* non-blocking; "block" when none is buffered and it is blocking
ReadSyscall(fd) ==
    IF buf[fd] > 0 THEN InputEventSize
    ELSE IF "O_NONBLOCK" \in fdtab[fd].flags THEN -1
    ELSE -2

WouldSleep(r) == r = -2

Sys(op, fd) == [op |-> op, fd |-> fd]

\* nm_open_evdev_nonblock
OpenEvdev ==
    /\ ppc = "idle"
    /\ LET fd == OpenSyscall IN
        IF OpenFailed(fd)
        THEN /\ ret_open' = -1
             /\ syscalls' = <<Sys("open", fd)>>
             /\ fdtab' = IF fd \in Fds
                         THEN [fdtab EXCEPT ![fd] = [open |-> TRUE, flags |-> OpenFlags(bsd)]]
                         ELSE fdtab
        ELSE /\ ret_open' = fd
             /\ syscalls' = <<Sys("open", fd), Sys("fcntl", fd)>>
             /\ fdtab' = IF fd \in Fds
                         THEN [fdtab EXCEPT ![fd] = [open |-> TRUE, flags |-> FcntlFlags(bsd)]]
                         ELSE fdtab
    /\ step' = "open"
    /\ UNCHANGED <<bsd, openable, buf, ppc, arg_fd, count, got, at_start, arrived, ret_consume>>
    /\ UNCHANGED <<initVars, tickVars, wifiVars>>

\* nm_close_evdev(fd), with the sentinel or a descriptor the host holds
CloseEvdev ==
    /\ ppc = "idle"
    /\ \E fd \in {Unopened} \cup OpenFds :
        /\ arg_fd' = fd
        /\ IF CloseGuard(fd)
           THEN /\ syscalls' = <<Sys("close", fd)>>
                /\ fdtab' = IF fd \in Fds THEN [fdtab EXCEPT ![fd] = Closed] ELSE fdtab
                /\ buf' = IF fd \in Fds THEN [buf EXCEPT ![fd] = 0] ELSE buf
           ELSE /\ syscalls' = <<>>
                /\ UNCHANGED <<fdtab, buf>>
    /\ step' = "close"
    /\ UNCHANGED <<bsd, openable, ppc, count, got, at_start, arrived, ret_open, ret_consume>>
    /\ UNCHANGED <<initVars, tickVars, wifiVars>>

\* nm_consume_input_events(fd): entry, up to the first read
ConsumeCall ==
    /\ ppc = "idle"
    /\ \E fd \in {Unopened} \cup OpenFds :
        /\ arg_fd' = fd
        /\ IF ConsumeGuard(fd)
           THEN /\ ppc' = "reading"
                /\ count' = 0
                /\ got' = 0
                /\ at_start' = IF fd \in Fds THEN buf[fd] ELSE 0
                /\ arrived' = FALSE
                /\ UNCHANGED ret_consume
           ELSE /\ ret_consume' = FALSE
                /\ UNCHANGED <<ppc, count, got, at_start, arrived>>
    /\ syscalls' = <<>>
    /\ step' = "consume"
    /\ UNCHANGED <<bsd, openable, fdtab, buf, ret_open>>
    /\ UNCHANGED <<initVars, tickVars, wifiVars>>

\* mutant: if (read(...) > 0) count++; in place of the while loop
ConsumeRead_Once ==
    /\ ppc \in {"reading", "blocked"}
    /\ LET r == IF arg_fd \in Fds /\ fdtab[arg_fd].open THEN ReadSyscall(arg_fd) ELSE -1 IN
        /\ syscalls' = <<Sys("read", arg_fd)>>
        /\ IF WouldSleep(r)
           THEN /\ ppc' = "blocked"
                /\ UNCHANGED <<buf, count, got, ret_consume>>
           ELSE /\ buf' = IF r > 0 THEN [buf EXCEPT ![arg_fd] = @ - 1] ELSE buf
                /\ got' = IF r > 0 THEN Min(got + 1, MaxCount) ELSE got
                /\ count' = IF ReadGotRecord(r) THEN Min(count + 1, MaxCount) ELSE count
                /\ ret_consume' = ConsumeResult(count')
                /\ ppc' = "idle"
    /\ step' = "read"
    /\ UNCHANGED <<bsd, openable, fdtab, arg_fd, at_start, arrived, ret_open>>
    /\ UNCHANGED <<initVars, tickVars, wifiVars>>

\* one evaluation of the loop condition: a read(), then count++ or return count > 0
ConsumeRead ==
    /\ ppc \in {"reading", "blocked"}
    /\ LET r == IF arg_fd \in Fds /\ fdtab[arg_fd].open THEN ReadSyscall(arg_fd) ELSE -1 IN
        /\ syscalls' = <<Sys("read", arg_fd)>>
        /\ IF WouldSleep(r)
           THEN /\ ppc' = "blocked"
                /\ UNCHANGED <<buf, count, got, ret_consume>>
           ELSE /\ buf' = IF r > 0 THEN [buf EXCEPT ![arg_fd] = @ - 1] ELSE buf
                /\ got' = IF r > 0 THEN Min(got + 1, MaxCount) ELSE got
                /\ IF ReadGotRecord(r)
                   THEN /\ count' = Min(count + 1, MaxCount)
                        /\ ppc' = "reading"
                        /\ UNCHANGED ret_consume
                   ELSE /\ ret_consume' = ConsumeResult(count)
                        /\ ppc' = "idle"
                        /\ UNCHANGED count
    /\ step' = "read"
    /\ UNCHANGED <<bsd, openable, fdtab, arg_fd, at_start, arrived, ret_open>>
    /\ UNCHANGED <<initVars, tickVars, wifiVars>>

\* the device reports an input event: the kernel queues one record for every
\* descriptor open on it (a full queue drops it)
Produce ==
    /\ OpenFds # {}
    /\ buf' = [f \in Fds |-> IF fdtab[f].open THEN Min(buf[f] + 1, BufCap) ELSE buf[f]]
    /\ arrived' = IF ppc # "idle" THEN TRUE ELSE arrived
    /\ step' = "produce"
    /\ syscalls' = <<>>
    /\ UNCHANGED <<bsd, openable, fdtab, ppc, arg_fd, count, got, at_start, ret_open,
                   ret_consume>>
    /\ UNCHANGED <<initVars, tickVars, wifiVars>>

\* the device node appears or disappears (or its permissions change)
DeviceChange ==
    /\ openable' = ~openable
    /\ step' = "device"
    /\ syscalls' = <<>>
    /\ UNCHANGED <<bsd, fdtab, buf, ppc, arg_fd, count, got, at_start, arrived, ret_open,
                   ret_consume>>
    /\ UNCHANGED <<initVars, tickVars, wifiVars>>

----------------------------------------------------------------------------
(* ui.h, lv_custom_tick.h: uint32_t nm_get_curr_tick().  Values of 32 bits and
   more are kept as 16-bit limbs, since TLC's integers are 32-bit signed: a
   tick is [hi, lo], the OS clock [top, hi, lo] with top counting whole
   periods of 2^32 ms. *)

MaxElapses == 4   \* times the clock is advanced in one run

Limb == 2^16

Tick(h, l) == [hi |-> h, lo |-> l]
Clock(t, h, l) == [top |-> t, hi |-> h, lo |-> l]

\* the amounts of time that pass between two events of a run, in ms:
\* 1, 16, 32, 0xFFFFFFF0 and 0xFFFFFFFF
ElapseSteps == {Tick(0, 1), Tick(0, 16), Tick(0, 32), Tick(65535, 65520), Tick(65535, 65535)}

\* c + d, of a clock and a 32-bit amount
ClockAdd(c, d) ==
    LET l == c.lo + d.lo
        h == c.hi + d.hi + (l \div Limb)
    IN  Clock(c.top + (h \div Limb), h % Limb, l % Limb)

\* b - a for clocks a <= b
ClockSub(b, a) ==
    LET l == b.lo - a.lo
        bl == IF l < 0 THEN 1 ELSE 0
        h == b.hi - a.hi - bl
        bh == IF h < 0 THEN 1 ELSE 0
    IN  Clock(b.top - a.top - bh, h + bh * Limb, l + bl * Limb)

\* mutant: a value that does not fit 32 bits is clamped to UINT32_MAX
ToUint32_Saturate(c) == IF c.top > 0 THEN Tick(Limb - 1, Limb - 1) ELSE Tick(c.hi, c.lo)

\* the uint32_t return type: the low 32 bits of the value
ToUint32(c) == Tick(c.hi, c.lo)

\* elapsed time since program start in ms, from the monotonic clock, as a uint32_t
nm_get_curr_tick == ToUint32(clock)

\* (later - earlier) mod 2^32, as unsigned 32-bit subtraction computes it
WrapSub(later, earlier) ==
    LET l == later.lo - earlier.lo
        bl == IF l < 0 THEN 1 ELSE 0
        h == later.hi - earlier.hi - bl
    IN  Tick(h % Limb, l + bl * Limb)

\* time passes
Elapse ==
    /\ n_elapse < MaxElapses
    /\ \E d \in ElapseSteps : clock' = ClockAdd(clock, d)
    /\ n_elapse' = n_elapse + 1
    /\ UNCHANGED <<nreads, t_early, t_late, c_early, c_late>>
    /\ UNCHANGED <<initVars, pumpVars, wifiVars>>

\* a consumer reads the tick
ReadTick ==
    /\ t_early' = t_late
    /\ c_early' = c_late
    /\ t_late' = nm_get_curr_tick
    /\ c_late' = clock
    /\ nreads' = Min(nreads + 1, 2)
    /\ UNCHANGED <<clock, n_elapse>>
    /\ UNCHANGED <<initVars, pumpVars, wifiVars>>

----------------------------------------------------------------------------
(* ui.c: the wifi section of the settings panel *)

MaxPending == 2   \* pending is tracked up to this value

\* what the host may report, and what the user may type
StatusTexts == {"connected", "disconnected"}
SsidLists == {<<>>, <<"net1">>, <<"net1", "net2">>}
Passwords == {"", "secret"}

\* lv_obj_add_state(obj, state) / lv_obj_clear_state(obj, state)
lv_obj_add_state(states, st) == states \cup {st}
lv_obj_clear_state(states, st) == states \ {st}

\* lv_obj_add_flag(obj, f) / lv_obj_clear_flag(obj, f)
lv_obj_add_flag(flags, f) == flags \cup {f}
lv_obj_clear_flag(flags, f) == flags \ {f}

\* lv_dropdown_get_selected_str: the selected option, empty when there is none
lv_dropdown_get_selected_str(opts, sel) == IF sel < Len(opts) THEN opts[sel + 1] ELSE ""

ButtonDisabled == "LV_STATE_DISABLED" \in btn_state
SpinnerVisible == "LV_OBJ_FLAG_HIDDEN" \notin spinner_flags

\* mutant: the spinner is shown, the button is left enabled
ClickButtonState_Enabled(states) == states

\* lv_obj_add_state(settings.wifi_connect_btn_obj, LV_STATE_DISABLED);
ClickButtonState(states) == lv_obj_add_state(states, "LV_STATE_DISABLED")

\* lv_obj_clear_flag(settings.wifi_spinner_obj, LV_OBJ_FLAG_HIDDEN);
ClickSpinnerFlags(flags) == lv_obj_clear_flag(flags, "LV_OBJ_FLAG_HIDDEN")

\* create_settings_panel: the spinner is created hidden, the button enabled, the
\* status reads "unknown status", the dropdown is cleared, the password is empty
WifiStart ==
    /\ btn_state = {}
    /\ spinner_flags = lv_obj_add_flag({}, "LV_OBJ_FLAG_HIDDEN")
    /\ wifi_status = "unknown status"
    /\ ssid_opts = <<>>
    /\ ssid_sel = 0
    /\ wifi_pwd = ""
    /\ wifi_op = "create_settings_panel"
    /\ pending = 0
    /\ seen_at_connect = [ssid |-> "", pwd |-> "", disabled |-> FALSE, spinner |-> FALSE]

\* wifi_connect_btn_callback, run by the toolkit on LV_EVENT_CLICKED; the toolkit
\* sends no click to an object in LV_STATE_DISABLED
wifi_connect_btn_callback ==
    /\ ~ButtonDisabled
    /\ btn_state' = ClickButtonState(btn_state)
    /\ spinner_flags' = ClickSpinnerFlags(spinner_flags)
    /\ wifi_status' = "connecting ..."
    /\ seen_at_connect' = [ssid |-> lv_dropdown_get_selected_str(ssid_opts, ssid_sel),
                           pwd |-> wifi_pwd,
                           disabled |-> "LV_STATE_DISABLED" \in btn_state',
                           spinner |-> "LV_OBJ_FLAG_HIDDEN" \notin spinner_flags']
    /\ pending' = Min(pending + 1, MaxPending)
    /\ wifi_op' = "wifi_connect_btn_callback"
    /\ UNCHANGED <<ssid_opts, ssid_sel, wifi_pwd>>
    /\ UNCHANGED <<initVars, pumpVars, tickVars>>

\* ui_update_network_status(text, wifi_list), called by the host at any time
ui_update_network_status ==
    /\ \E text \in StatusTexts, has_list \in BOOLEAN, wifi_list \in SsidLists :
        /\ wifi_status' = text
        \* if (wifi_list) lv_dropdown_set_options(...): the selection returns to 0
        /\ ssid_opts' = IF has_list THEN wifi_list ELSE ssid_opts
        /\ ssid_sel' = IF has_list THEN 0 ELSE ssid_sel
    /\ btn_state' = lv_obj_clear_state(btn_state, "LV_STATE_DISABLED")
    /\ spinner_flags' = lv_obj_add_flag(spinner_flags, "LV_OBJ_FLAG_HIDDEN")
    /\ pending' = 0
    /\ wifi_op' = "ui_update_network_status"
    /\ UNCHANGED <<wifi_pwd, seen_at_connect>>
    /\ UNCHANGED <<initVars, pumpVars, tickVars>>

\* the user picks a network in the dropdown
SelectSsid ==
    /\ \E i \in 0..(Len(ssid_opts) - 1) : ssid_sel' = i
    /\ wifi_op' = "select"
    /\ UNCHANGED <<btn_state, spinner_flags, wifi_status, ssid_opts, wifi_pwd, pending,
                   seen_at_connect>>
    /\ UNCHANGED <<initVars, pumpVars, tickVars>>

\* the user edits the password
TypePassword ==
    /\ \E pw \in Passwords : wifi_pwd' = pw
    /\ wifi_op' = "type"
    /\ UNCHANGED <<btn_state, spinner_flags, wifi_status, ssid_opts, ssid_sel, pending,
                   seen_at_connect>>
    /\ UNCHANGED <<initVars, pumpVars, tickVars>>

----------------------------------------------------------------------------
(* one process start: a backend is linked in, the toolkit is initialised and empty *)

\* no descriptor is open, nothing has been called
PumpStart ==
    /\ fdtab = [f \in Fds |-> Closed]
    /\ buf = [f \in Fds |-> 0]
    /\ ppc = "idle"
    /\ step = "start"
    /\ arg_fd = Unopened
    /\ count = 0
    /\ got = 0
    /\ at_start = 0
    /\ arrived = FALSE
    /\ syscalls = <<>>
    /\ ret_open = Unopened
    /\ ret_consume = FALSE

\* program start: no time has passed, no reading was taken
TickStart ==
    /\ clock = Clock(0, 0, 0)
    /\ n_elapse = 0
    /\ nreads = 0
    /\ t_early = Tick(0, 0) /\ t_late = Tick(0, 0)
    /\ c_early = Clock(0, 0, 0) /\ c_late = Clock(0, 0, 0)

Init ==
    /\ backend \in Backends
    /\ pc = "disp_init"
    /\ hw \in HwModes
    /\ disps = <<>>
    /\ disp = NULL
    /\ indevs = <<>>
    /\ groups = 0
    /\ default_group = NULL
    /\ g = NULL
    /\ kb = NULL
    /\ warns = {}
    /\ tk_fail = {}
    /\ returned = {}
    /\ ret_disp = NULL
    /\ ret_indev = -1
    /\ PumpStart /\ bsd = FALSE /\ openable = TRUE
    /\ TickStart
    /\ WifiStart

Next ==
    \/ FbDispInit \/ FbIndevGroup \/ FbIndevTouchpad
    \/ X11DispInit \/ X11IndevMouse \/ X11IndevKb \/ X11IndevGroup
    \/ Sdl2Disp \/ Sdl2Mouse \/ Sdl2Group \/ Sdl2Kb

Spec == Init /\ [][Next]_vars

\* the framebuffer backend after a successful start, the host about to use the pump
InitPump ==
    /\ backend = "fbev" /\ pc = "done" /\ hw = [err |-> 0, w |-> NM_DISP_HOR, h |-> NM_DISP_VER, bpp |-> LV_COLOR_DEPTH]
    /\ disps = <<DispDrv>> /\ disp = 1
    /\ indevs = lv_indev_drv_register(<<>>, "pointer")
    /\ groups = 1 /\ default_group = 1 /\ g = 1 /\ kb = NULL
    /\ warns = {} /\ tk_fail = {}
    /\ returned = {"nm_disp_init", "nm_indev_init"} /\ ret_disp = 1 /\ ret_indev = 0
    /\ PumpStart
    /\ bsd \in BOOLEAN
    /\ openable \in BOOLEAN
    /\ TickStart
    /\ WifiStart

NextPump == OpenEvdev \/ CloseEvdev \/ ConsumeCall \/ ConsumeRead \/ Produce \/ DeviceChange

SpecPump == InitPump /\ [][NextPump]_vars

\* the running program, as far as its tick source goes
InitTick == InitPump /\ bsd = FALSE /\ openable = TRUE

NextTick == Elapse \/ ReadTick

SpecTick == InitTick /\ [][NextTick]_vars

\* the user interface after nm_ui_init, as far as the wifi section goes
InitWifi == InitTick

NextWifi ==
    wifi_connect_btn_callback \/ ui_update_network_status \/ SelectSsid \/ TypePassword

SpecWifi == InitWifi /\ [][NextWifi]_vars

\* the loop of nm_consume_input_events keeps running once entered
FairSpecPump == SpecPump /\ WF_vars(ConsumeRead)

----------------------------------------------------------------------------
(* what the host sees of an initialisation, and what the toolkit holds *)

Done == pc = "done"

\* the host is told that initialisation succeeded
Success ==
    /\ Done
    /\ ret_disp # NULL
    /\ backend # "sdl2" => ("nm_indev_init" \in returned /\ ret_indev = 0)

HasDev(type) == \E i \in 1..Len(indevs) : indevs[i].type = type

Keypads == {i \in 1..Len(indevs) : indevs[i].type = "keypad"}

\* the input devices a backend registers when nothing fails
BackendDevices(b) == IF b = "fbev" THEN {"pointer"} ELSE {"pointer", "keypad"}

AllRegistered ==
    /\ Len(disps) = 1
    /\ \A t \in BackendDevices(backend) : HasDev(t)

DeviceFailed == tk_fail \cap {"pointer", "keypad"} # {}

\* the warning the code logs for a failed toolkit call
WarningOf(st) ==
    CASE st = "pointer" -> "mouse"
      [] st = "keypad"  -> "keyboard"
      [] st = "group"   -> "group"
      [] OTHER            -> "none"

----------------------------------------------------------------------------
(* C1 as stated: for every backend and every combination of toolkit failures,
   initialisation reports success exactly when no registration step failed,
   and a reported success comes with the display and all of the backend's
   input devices registered. *)
C1_Original ==
    Done => /\ Success <=> tk_fail = {}
            /\ Success => AllRegistered

(* C1 as amended: in the framebuffer and X11 backends the first failed step
   ends initialisation and is reported (success is reported exactly when no
   step failed, and then everything is registered); SDL2's drv_init reports
   failure only when the display fails to register: a failed pointer, group
   or keypad step is logged as a warning and success is still reported. *)
C1_FirstFailureReported ==
    Done =>
        /\ backend \in {"fbev", "x11"} =>
              /\ Success <=> tk_fail = {}
              /\ Success => AllRegistered /\ default_group # NULL
              /\ Cardinality(tk_fail) <= 1
        /\ backend = "sdl2" =>
              /\ Success <=> "display" \notin tk_fail
              /\ Success => Len(disps) = 1
              /\ \A st \in tk_fail \ {"display"} : WarningOf(st) \in warns
              /\ Success => \A t \in BackendDevices(backend) :
                                HasDev(t) <=> t \notin tk_fail

C1_Witness ==
    /\ Done /\ backend = "sdl2" /\ ret_disp # NULL
    /\ "pointer" \in tk_fail /\ ~HasDev("pointer")

----------------------------------------------------------------------------
\* the mode query of the linked backend disagrees with the configured constants
Mismatch ==
    \/ backend = "fbev" /\ FbMismatch(hw)
    \/ backend = "sdl2" /\ Sdl2Mismatch(hw)

(* C5: in the framebuffer and SDL2 backends a reported mode that differs from
   NM_DISP_HOR x NM_DISP_VER (or a failed query in SDL2) only logs a warning:
   the display is registered at NM_DISP_HOR x NM_DISP_VER, and whether a
   display handle is obtained depends on the toolkit's answer alone. *)
C5_MismatchOnlyWarns ==
    (backend \in {"fbev", "sdl2"} /\ pc # "disp_init") =>
        /\ \A i \in 1..Len(disps) :
              disps[i].hor_res = NM_DISP_HOR /\ disps[i].ver_res = NM_DISP_VER
        /\ disp # NULL <=> "display" \notin tk_fail
        /\ Len(disps) = 1 <=> "display" \notin tk_fail
        /\ "mismatch" \in warns <=> Mismatch
        /\ Done /\ tk_fail = {} => Success

C5_Witness ==
    /\ backend = "fbev" /\ hw.w # NM_DISP_HOR /\ Done /\ Success
    /\ Len(disps) = 1 /\ disps[1].hor_res = NM_DISP_HOR
    /\ "mismatch" \in warns

(* C6 as stated: when a pointer or keypad fails to register, SDL2 and X11
   report failure, and the framebuffer backend continues, warns and reports
   success. *)
C6_Original ==
    (Done /\ DeviceFailed) =>
        /\ backend \in {"sdl2", "x11"} => ~Success
        /\ backend = "fbev" => Success /\ warns # {}

(* C6 as amended: when a pointer or keypad fails to register, the framebuffer
   and X11 backends fail outright (nm_indev_init returns -1), and SDL2 is the
   one backend that degrades: drv_init continues without the failed device,
   logs a warning for it and still returns the display. *)
C6_DegradingBackend ==
    (Done /\ DeviceFailed) =>
        /\ backend \in {"fbev", "x11"} => ret_indev = -1 /\ ~Success
        /\ backend = "sdl2" =>
              /\ Success
              /\ \A st \in tk_fail \cap {"pointer", "keypad"} :
                    WarningOf(st) \in warns /\ ~HasDev(st)

C6_Witness ==
    /\ Done /\ backend = "sdl2" /\ "keypad" \in tk_fail
    /\ ret_disp # NULL /\ "keyboard" \in warns

(* C7 as stated: in X11 and SDL2, whenever a keypad device is registered a
   default focus group exists and the keypad is associated with it; the
   framebuffer backend registers no keypad. *)
C7_Original ==
    /\ backend = "fbev" => Keypads = {}
    /\ backend \in {"x11", "sdl2"} =>
          \A i \in Keypads : default_group # NULL /\ indevs[i].group = default_group

(* C7 as amended: SDL2 attempts to create the default group before it
   registers the keypad, X11 creates it after the keypad is registered; in
   both, whenever a keypad is registered and a default group exists once
   group creation has been attempted, the keypad is associated with that
   group, and a successful X11 initialisation always ends so.  If group
   creation fails the keypad stays registered without a group.  The
   framebuffer backend registers no keypad. *)
C7_KeypadGrouped ==
    /\ backend = "fbev" => Keypads = {}
    /\ backend = "sdl2" /\ Keypads # {} => default_group # NULL \/ "group" \in tk_fail
    /\ backend = "x11" /\ pc = "x11_group" => Keypads # {} /\ default_group = NULL
    /\ \A i \in Keypads :
          /\ default_group # NULL => indevs[i].group = default_group
          /\ default_group = NULL => indevs[i].group = NULL
    /\ backend = "x11" /\ Success => Keypads # {} /\ default_group # NULL

C7_Witness ==
    /\ backend = "x11" /\ Success /\ kb \in Keypads
    /\ default_group # NULL /\ indevs[kb].group = default_group

(* C8 as stated: in every backend a failed lv_group_create makes
   initialisation fail. *)
C8_Original == (Done /\ "group" \in tk_fail) => ~Success

(* C8 as amended: in the framebuffer and X11 backends a failed
   lv_group_create makes nm_indev_init return -1; in SDL2 it only logs a
   warning, no default group is set, and drv_init still returns the display. *)
C8_GroupFailure ==
    (Done /\ "group" \in tk_fail) =>
        /\ default_group = NULL
        /\ backend \in {"fbev", "x11"} => ret_indev = -1 /\ ~Success
        /\ backend = "sdl2" => Success /\ "group" \in warns

C8_Witness ==
    /\ Done /\ backend = "fbev" /\ "group" \in tk_fail
    /\ ret_indev = -1 /\ ret_disp # NULL /\ indevs = <<>>

----------------------------------------------------------------------------
\* a call of nm_consume_input_events on an open descriptor has just returned
ConsumeReturned == step = "read" /\ ppc = "idle"

(* C2: nm_consume_input_events on an open descriptor returns true exactly when
   at least one read() of the call returned a full record: true when records
   were buffered at the call, false when the device had none for it (none
   buffered at the call and none delivered before the call's reads ended). *)
C2_TrueIffRecordRead ==
    ConsumeReturned =>
        /\ ret_consume \in BOOLEAN
        /\ ret_consume <=> got >= 1
        /\ at_start >= 1 => ret_consume
        /\ (at_start = 0 /\ ~arrived) => ~ret_consume
        /\ ~arrived => got = at_start /\ buf[arg_fd] = 0

C2_Witness ==
    /\ ConsumeReturned /\ at_start = BufCap /\ got = BufCap /\ ret_consume

(* C3: with the unopened descriptor value -1, nm_close_evdev and
   nm_consume_input_events issue no system call and leave every descriptor
   and every buffer as it was, and nm_consume_input_events returns false,
   wherever in a sequence of open / close / drain calls they are made. *)
C3_UnopenedNoOp ==
    [][(step' \in {"close", "consume"} /\ arg_fd' = Unopened) =>
          /\ syscalls' = <<>>
          /\ fdtab' = fdtab /\ buf' = buf
          /\ ppc' = "idle"
          /\ step' = "consume" => ret_consume' = FALSE]_vars

C3_Witness ==
    /\ step = "consume" /\ arg_fd = Unopened /\ ret_consume = FALSE
    /\ syscalls = <<>>
    /\ \E f \in OpenFds : buf[f] > 0

\* open() has nothing to return: the path cannot be opened, or no descriptor is left
CannotOpen == ~openable \/ OpenFds = Fds

(* C4: when the device path cannot be opened, nm_open_evdev_nonblock returns
   -1, the unopened sentinel, after the one failed open(): no descriptor is
   opened or left behind; nm_close_evdev and nm_consume_input_events given
   that returned value change nothing and issue no system call. *)
C4_FailedOpen ==
    [][/\ (step' = "open" /\ CannotOpen) =>
            /\ ret_open' = Unopened
            /\ syscalls' = <<Sys("open", -1)>>
            /\ fdtab' = fdtab /\ buf' = buf
       /\ (step' = "open" /\ ~CannotOpen) =>
            /\ ret_open' \in Fds \ OpenFds
            /\ fdtab'[ret_open'].open
            /\ OpenFds' = OpenFds \cup {ret_open'}
       /\ (step' \in {"close", "consume"} /\ ret_open = -1 /\ arg_fd' = ret_open) =>
            /\ syscalls' = <<>>
            /\ OpenFds' = OpenFds /\ buf' = buf
            /\ ppc' = "idle"]_vars

C4_Witness ==
    /\ step = "close" /\ ret_open = Unopened /\ arg_fd = ret_open
    /\ ~openable /\ syscalls = <<>> /\ OpenFds # {}

----------------------------------------------------------------------------
\* the time that passed between the two latest readings
Between == ClockSub(c_late, c_early)

(* C9: the tick counter is the elapsed milliseconds modulo 2^32: it is zero
   again when exactly 2^32 ms have passed, and for two readings taken less
   than 2^32 ms apart (later - earlier) mod 2^32 is the time that passed
   between them, also when the counter wrapped in between. *)
C9_WrapSafeElapsed ==
    /\ (nreads >= 1 /\ c_late = Clock(1, 0, 0)) => t_late = Tick(0, 0)
    /\ (nreads = 2 /\ Between.top = 0) =>
          WrapSub(t_late, t_early) = Tick(Between.hi, Between.lo)

\* readings 0xFFFFFFF0 and 0x00000010, taken across the wrap, are 32 ms apart
C9_Witness ==
    /\ nreads = 2
    /\ t_early = Tick(65535, 65520) /\ t_late = Tick(0, 16)
    /\ c_late.top = 1
    /\ WrapSub(t_late, t_early) = Tick(0, 32)

----------------------------------------------------------------------------
Reading == ppc = "reading"

(* C10 as stated: every call of nm_consume_input_events terminates without
   blocking, also when the device keeps producing events while it runs. *)
C10_Original ==
    /\ [](ppc # "blocked")
    /\ Reading ~> (ppc = "idle")

(* C10 as amended: no read of nm_consume_input_events blocks, and the call
   returns at the first read that finds no record buffered, so it returns
   with the buffer empty; it terminates whenever the device stops delivering
   records, and a call during which none is delivered consumes exactly the
   records buffered when it began.  Records delivered while it runs are
   consumed too, so the call lasts for as long as its reads keep finding one. *)
C10_NeverBlocks ==
    /\ [](ppc # "blocked")
    /\ [](ConsumeReturned => buf[arg_fd] = 0 /\ syscalls = <<Sys("read", arg_fd)>>)
    /\ [](Reading /\ ~arrived => got + buf[arg_fd] = at_start)
    /\ (<>[][~Produce]_vars) => (Reading ~> (ppc = "idle"))

\* a call that went on past the records buffered at its start, and returned
C10_Witness ==
    /\ ConsumeReturned /\ arrived /\ ret_consume
    /\ at_start = BufCap /\ got > BufCap

----------------------------------------------------------------------------
(* C11 as stated: the result of a nm_consume_input_events call reflects only
   the records delivered before the call began: a record the device delivers
   after the call has started neither changes what the call returns nor is
   consumed by it. *)
C11_Original ==
    ConsumeReturned =>
        /\ ret_consume <=> at_start >= 1
        /\ got <= at_start

(* C11 as amended: a call consumes, and its result reflects, every record
   delivered before the read that ends it: the records buffered when the call
   began, and also those the device delivers while the call runs, up to the
   read that finds the buffer empty.  So records delivered before the call
   always count, a call that began on an empty buffer returns true only if a
   record was delivered while it ran, and without such a delivery the call
   consumes exactly what was buffered when it began. *)
C11_ReflectsUpToLastRead ==
    ConsumeReturned =>
        /\ got >= at_start
        /\ at_start >= 1 => ret_consume
        /\ (ret_consume /\ at_start = 0) => arrived
        /\ got > at_start => arrived
        /\ ~arrived => (ret_consume <=> at_start >= 1)

\* a call that began on an empty buffer returns true for a record delivered after it began
C11_Witness ==
    /\ ConsumeReturned /\ at_start = 0 /\ arrived
    /\ got = 1 /\ ret_consume

\* C12: in the wifi section, through any clicks of the connect button and any
\* ui_update_network_status calls: the button is disabled exactly when the spinner is
\* visible; nm_wifi_start_connect is called with the button already disabled and the
\* spinner already shown; only ui_update_network_status enables the button again or
\* hides the spinner; and the button never starts a second connect before the next
\* status update arrives.
C12_DisabledIffSpinning ==
    /\ [](ButtonDisabled <=> SpinnerVisible)
    /\ [](pending >= 1 => seen_at_connect.disabled /\ seen_at_connect.spinner)
    /\ [](pending <= 1 /\ (pending = 1 <=> ButtonDisabled))
    /\ [][(\/ ButtonDisabled /\ ~ButtonDisabled'
           \/ SpinnerVisible /\ ~SpinnerVisible') =>
              wifi_op' = "ui_update_network_status"]_vars
    /\ [][pending' > pending => ~ButtonDisabled /\ ButtonDisabled' /\ SpinnerVisible']_vars

\* a click after the list arrived and the user chose a network and typed a password:
\* the connect is under way with the button disabled and the spinner turning
C12_Witness ==
    /\ wifi_op = "wifi_connect_btn_callback"
    /\ ButtonDisabled /\ SpinnerVisible
    /\ pending = 1
    /\ wifi_status = "connecting ..."
    /\ seen_at_connect.ssid = "net2" /\ seen_at_connect.pwd = "secret"

====
